---- MODULE Spec2Model ----
(***************************************************************************)
(* A model of lspsuite/reader.py: the reader of LSP .p4 dump files.        *)
(*                                                                         *)
(* A file is a sequence of bytes with a cursor (file.tell()).  Each reader *)
(* of reader.py is an operator from (file, cursor) to a result record that *)
(* carries the value or the exception raised and the cursor it leaves.     *)
(* The loops of read_flds, read_pmovie_ll and times are run one iteration  *)
(* per action.  Text is a sequence of code points, a float is the 32-bit   *)
(* pattern it was decoded from.  The text readers (read_grid, read_regions,*)
(* read_volumes) read lines of bytes; the dicts they make are objects held *)
(* apart from the references a list keeps to them.                         *)
(***************************************************************************)
EXTENDS Integers, Sequences, FiniteSets, TLC

VARIABLES
    file,     \* the bytes of the open file
    pos,      \* the file cursor, file.tell()
    pc,       \* where the running call stands
    header,   \* the header dict of the running call
    ret,      \* what the call returned, or the exception it raised
    loc,      \* the locals of the running call
    doms,     \* read_flds: the list doms
    frames,   \* read_pmovie_ll: the list frames
    fns,      \* times: the files behind the file names fns
    tarr,     \* times: the array times
    inp       \* the content the file was written from (read by the properties only)

vars == <<file, pos, pc, header, ret, loc, doms, frames, fns, tarr, inp>>

----------------------------------------------------------------------------
(* Sequences and arithmetic.                                               *)

Range(s) == {s[i] : i \in DOMAIN s}

Take(s, n) == SubSeq(s, 1, IF n < Len(s) THEN n ELSE Len(s))

Drop(s, n) == SubSeq(s, n + 1, Len(s))

RECURSIVE Flatten(_)
Flatten(ss) == IF Len(ss) = 0 THEN <<>> ELSE Head(ss) \o Flatten(Tail(ss))

RECURSIVE SeqSum(_)
SeqSum(s) == IF Len(s) = 0 THEN 0 ELSE Head(s) + SeqSum(Tail(s))

None == [none |-> TRUE]

\* What a read gives: the value and the cursor after it, or the exception raised
\* and the cursor where it was raised.
Ok(v, p) == [ok |-> TRUE, val |-> v, pos |-> p]

Raise(e, p) == [ok |-> FALSE, err |-> e, pos |-> p]

\* The statements K that follow a read r: run when r raised nothing. The read
\* is done once, whatever the number of uses K makes of its result.
Bind(r, K(_)) ==
    CHOOSE out \in {IF x.ok THEN K(x) ELSE Raise(x.err, x.pos) : x \in {r}} : TRUE

\* x = v, then the statements K.
With(v, K(_)) == CHOOSE out \in {K(x) : x \in {v}} : TRUE

\* A Python dict: a function from its keys.
DictGet(d, k) == d[k]

DictUpdate(d, e) ==
    [k \in (DOMAIN d) \cup (DOMAIN e) |-> IF k \in DOMAIN e THEN e[k] ELSE d[k]]

DictDel(d, k) == [x \in (DOMAIN d) \ {k} |-> d[x]]

----------------------------------------------------------------------------
(* The file object.                                                        *)

\* file.read(n): at most n bytes from the cursor, all that is left when n < 0.
file_read(f, p, n) ==
    LET left == IF p >= Len(f) THEN 0 ELSE Len(f) - p
        k    == IF n < 0 \/ n > left THEN left ELSE n
    IN  [s |-> SubSeq(f, p + 1, p + k), pos |-> p + k]

\* file.seek(off, 1) and file.seek(off): the cursor may pass the end of the file.
file_seek_cur(p, off) == p + off

file_seek(off) == off

\* iseof: read one byte; at the end nothing is read and the cursor has not moved.
\* Otherwise the cursor is put back (and None, which is false, is returned).
iseof(f, p) ==
    LET c == p
        r == file_read(f, p, 1)
    IN  IF r.pos = c THEN [eof |-> TRUE, pos |-> r.pos]
        ELSE [eof |-> FALSE, pos |-> file_seek(c)]

----------------------------------------------------------------------------
(* Big-endian 4-byte values.                                               *)

W24 == 16777216
W16 == 65536
W8 == 256

\* dtype '>i4': a signed big-endian 32-bit integer.
be_i4(b) ==
    (IF b[1] >= 128 THEN b[1] - W8 ELSE b[1]) * W24 + b[2] * W16 + b[3] * W8 + b[4]

\* dtype '>f4': the float is kept as the bit pattern it carries.
be_f4(b) == [f4 |-> be_i4(b)]

\* The first n items of the string s, as ints and as floats.
words_i4(s, n) == [k \in 1..n |-> be_i4(SubSeq(s, 4 * k - 3, 4 * k))]

words_f4(s, n) == [k \in 1..n |-> be_f4(SubSeq(s, 4 * k - 3, 4 * k))]

ItemSize == 4

\* np.fromstring(s, dtype, count=N), binary mode, and np.frombuffer alike, s
\* being what file.read gave: count < 0 takes the whole string, which must then
\* be a multiple of the item size; a string shorter than count items is a
\* ValueError.
np_fromstring(s, N, itemsize, items(_, _)) ==
    IF N < 0
    THEN IF (Len(s.s) % itemsize) # 0 THEN Raise("ValueError", s.pos)
         ELSE Ok(items(s.s, Len(s.s) \div itemsize), s.pos)
    ELSE IF Len(s.s) < N * itemsize THEN Raise("ValueError", s.pos)
         ELSE Ok(items(s.s, N), s.pos)

\* get_int(file, N, forcearray=True): the array of N ints.
get_int_N(f, p, N) == np_fromstring(file_read(f, p, ItemSize * N), N, ItemSize, words_i4)

\* get_int(file): N = 1 and not forcearray returns ret[0].
get_int(f, p) == Bind(get_int_N(f, p, 1), LAMBDA a : Ok(a.val[1], a.pos))

\* get_float(file, N, forcearray=True): the array of N floats.
get_float_N(f, p, N) == np_fromstring(file_read(f, p, ItemSize * N), N, ItemSize, words_f4)

get_float(f, p) == Bind(get_float_N(f, p, 1), LAMBDA a : Ok(a.val[1], a.pos))

----------------------------------------------------------------------------
(* Strings.                                                                *)

\* bytes.decode('utf-8') for one- and two-byte sequences: a byte below 0x80 is
\* its own code point, a lead byte 0xC2..0xDF takes one continuation byte
\* 0x80..0xBF; a stray continuation byte or a lead byte without one is a
\* UnicodeDecodeError.  (The model's files hold no byte from 0xE0 up.)
utf8_cons(c, r) == IF r.ok THEN [ok |-> TRUE, val |-> <<c>> \o r.val] ELSE r

RECURSIVE utf8_decode(_)
utf8_decode(b) ==
    IF Len(b) = 0 THEN [ok |-> TRUE, val |-> <<>>]
    ELSE IF b[1] < 128 THEN utf8_cons(b[1], utf8_decode(Tail(b)))
    ELSE IF b[1] >= 194 /\ b[1] <= 223 /\ Len(b) >= 2 /\ b[2] >= 128 /\ b[2] <= 191
    THEN utf8_cons((b[1] - 192) * 64 + (b[2] - 128), utf8_decode(Drop(b, 2)))
    ELSE [ok |-> FALSE, err |-> "UnicodeDecodeError"]

\* The result r of a conversion made with the cursor at p.
At(r, p) == [x \in (DOMAIN r) \cup {"pos"} |-> IF x = "pos" THEN p ELSE r[x]]

\* xdrlib.Unpacker(buf).unpack_fstring(n), buf the bytes file.read gave.
unpack_fstring(buf, n) ==
    IF n < 0 THEN Raise("ValueError", buf.pos)
    ELSE IF ((n + 3) \div 4) * 4 > Len(buf.s) THEN Raise("EOFError", buf.pos)
    ELSE Ok(SubSeq(buf.s, 1, n), buf.pos)

\* str_size without the padding to a multiple of four.
str_size_unpadded(l1) == l1

\* The number of bytes get_str reads after the two prefixes.
str_size(l1) == IF (l1 % 4) # 0 THEN l1 + (4 - (l1 % 4)) ELSE l1

\* The warning printed when the two prefixes differ is kept with the result.
Warned(r, w) == [x \in (DOMAIN r) \cup {"warn"} |-> IF x = "warn" THEN w ELSE r[x]]

get_str(f, p) ==
    Bind(get_int(f, p), LAMBDA l1 :
    Bind(get_int(f, l1.pos), LAMBDA l2 :
        Warned(Bind(unpack_fstring(file_read(f, l2.pos, str_size(l1.val)), l1.val),
                    LAMBDA u : At(utf8_decode(u.val), u.pos)),
               l1.val # l2.val)))

----------------------------------------------------------------------------
(* get_list and get_dict.                                                  *)

\* get_list(file, fmt): one value per flag of fmt, 'i' an int, 'f' or 'd' a
\* float, 's' a string; any other flag is a ValueError.
get_item(f, p, i) ==
    IF i = "i" THEN get_int(f, p)
    ELSE IF i = "f" \/ i = "d" THEN get_float(f, p)
    ELSE IF i = "s" THEN get_str(f, p)
    ELSE Raise("ValueError", p)

RECURSIVE get_list(_, _, _)
get_list(f, p, fmt) ==
    IF Len(fmt) = 0 THEN Ok(<<>>, p)
    ELSE Bind(get_item(f, p, Head(fmt)), LAMBDA a :
         Bind(get_list(f, a.pos, Tail(fmt)), LAMBDA r :
             Ok(<<a.val>> \o r.val, r.pos)))

\* dict(zip(keys, values))
dict_zip(keys, vals) ==
    LET n == IF Len(keys) < Len(vals) THEN Len(keys) ELSE Len(vals)
    IN  [k \in {keys[i] : i \in 1..n} |->
            vals[CHOOSE i \in 1..n : keys[i] = k /\ \A j \in (i + 1)..n : keys[j] # k]]

get_dict(f, p, fmt, keys) ==
    Bind(get_list(f, p, fmt), LAMBDA l : Ok(dict_zip(keys, l.val), l.pos))

\* [get_str(file) for i in range(n)]
RECURSIVE get_str_list(_, _, _)
get_str_list(f, p, n) ==
    IF n <= 0 THEN Ok(<<>>, p)
    ELSE Bind(get_str(f, p), LAMBDA a :
         Bind(get_str_list(f, a.pos, n - 1), LAMBDA r :
             Ok(<<a.val>> \o r.val, r.pos)))

\* [bool(get_int(file)) for i in range(n)]
RECURSIVE get_flag_list(_, _, _)
get_flag_list(f, p, n) ==
    IF n <= 0 THEN Ok(<<>>, p)
    ELSE Bind(get_int(f, p), LAMBDA a :
         Bind(get_flag_list(f, a.pos, n - 1), LAMBDA r :
             Ok(<<a.val # 0>> \o r.val, r.pos)))

----------------------------------------------------------------------------
(* zip.                                                                    *)

MinLen(a, b) == IF Len(a) < Len(b) THEN Len(a) ELSE Len(b)

\* list(zip(a, b)): the pairs, as many as the shorter list has.
zip_pairs(a, b) == [i \in 1..MinLen(a, b) |-> <<a[i], b[i]>>]

\* A list kept in a dict beside zip objects.
list_object(a) == [list |-> a]

\* zip(a, b) kept as an object: an iterator that yields each pair once.  The
\* value holds the pairs not yet yielded.
zip_object(a, b) == [zip_rest |-> zip_pairs(a, b)]

\* Running an iterator to its end: what it yields, and the iterator afterwards.
iter_all(z) == [items |-> z.zip_rest, after |-> [zip_rest |-> <<>>]]

----------------------------------------------------------------------------
(* get_header.                                                             *)

MovieLabels == <<"q", "x", "y", "z", "ux", "uy", "uz", "E">>

\* MovieLabelsFor with labels[1:] for labels[:-1] when n = 7.
MovieLabelsFor_dropfirst(n) ==
    IF n = 8 THEN MovieLabels
    ELSE IF n = 7 THEN Tail(MovieLabels)
    ELSE MovieLabels \o <<"xi", "yi", "zi">>

MovieLabelsFor(n) ==
    IF n = 8 THEN MovieLabels
    ELSE IF n = 7 THEN SubSeq(MovieLabels, 1, Len(MovieLabels) - 1)
    ELSE MovieLabels \o <<"xi", "yi", "zi">>

\* [(label, unit) for (label, unit, flag) in zip(labels, units, flags) if flag]
RECURSIVE enabled_params(_, _, _)
enabled_params(labels, units, flags) ==
    IF Len(labels) = 0 \/ Len(units) = 0 \/ Len(flags) = 0 THEN <<>>
    ELSE (IF Head(flags) THEN <<(<<Head(labels), Head(units)>>)>> ELSE <<>>)
         \o enabled_params(Tail(labels), Tail(units), Tail(flags))

\* The fields and scalars branch, dump_type 2 or 3.
get_header_flds(f, p, h) ==
    Bind(get_dict(f, p, <<"f", "i", "i">>, <<"timestamp", "geometry", "domains">>), LAMBDA d :
    Bind(get_int(f, d.pos), LAMBDA n :
    Bind(get_str_list(f, n.pos, n.val), LAMBDA names :
    Bind(get_str_list(f, names.pos, n.val), LAMBDA units :
        Ok(DictUpdate(DictUpdate(h, d.val),
                      [quantities |-> zip_object(names.val, units.val)]),
           units.pos)))))

\* The particle movie branch, dump_type 6.
get_header_pmovie(f, p, h) ==
    Bind(get_dict(f, p, <<"i", "i", "i", "i">>,
                  <<"geometry", "sflagsx", "sflagsy", "sflagsz">>), LAMBDA d :
    Bind(get_int(f, d.pos), LAMBDA n :
    Bind(get_flag_list(f, n.pos, n.val), LAMBDA flags :
    Bind(get_str_list(f, flags.pos, n.val), LAMBDA units :
        IF n.val \notin {8, 7, 11}
        THEN Raise("NotImplementedError", units.pos)
        ELSE Ok(DictUpdate(DictUpdate(h, d.val),
                           [params |-> enabled_params(MovieLabelsFor(n.val),
                                                      units.val, flags.val)]),
                units.pos)))))

\* The particle extraction branch, dump_type 10.
get_header_pext(f, p, h) ==
    Bind(get_int(f, p), LAMBDA g :
    Bind(get_int(f, g.pos), LAMBDA n :
    Bind(get_str_list(f, n.pos, n.val), LAMBDA names :
        Ok(DictUpdate(h, [geometry |-> g.val, quantities |-> list_object(names.val)]),
           names.pos))))

\* The branch on the dump_type of the common fields h.
get_header_branch(f, p, h) ==
    IF h["dump_type"] = 2 \/ h["dump_type"] = 3 THEN get_header_flds(f, p, h)
    ELSE IF h["dump_type"] = 6 THEN get_header_pmovie(f, p, h)
    ELSE IF h["dump_type"] = 10 THEN get_header_pext(f, p, h)
    ELSE Raise("ValueError: Unknown dump_type", p)

\* get_header without the final else: an unknown dump_type returns the common fields.
get_header_noelse(f, p) ==
    Bind(get_dict(f, p, <<"i", "i", "s", "s">>,
                  <<"dump_type", "dversion", "title", "revision">>),
         LAMBDA c : IF c.val["dump_type"] \in {2, 3, 6, 10}
                    THEN get_header_branch(f, c.pos, c.val)
                    ELSE Ok(c.val, c.pos))

get_header(f, p) ==
    Bind(get_dict(f, p, <<"i", "i", "s", "s">>,
                  <<"dump_type", "dversion", "title", "revision">>),
         LAMBDA c : get_header_branch(f, c.pos, c.val))

----------------------------------------------------------------------------
(* The layout of a .p4 file, as the readers above take it apart: the files *)
(* of the model are written with these.                                    *)

\* The four bytes get_int decodes to v.
put_int(v) ==
    <<(v \div W24) % W8, (v \div W16) % W8, (v \div W8) % W8, v % W8>>

\* The four bytes get_float decodes to x.
put_float(x) == put_int(x.f4)

RECURSIVE put_floats(_)
put_floats(xs) == IF Len(xs) = 0 THEN <<>> ELSE put_float(Head(xs)) \o put_floats(Tail(xs))

RECURSIVE put_ints(_)
put_ints(vs) == IF Len(vs) = 0 THEN <<>> ELSE put_int(Head(vs)) \o put_ints(Tail(vs))

\* The padding of a string body of n bytes to a multiple of four.
PadLen(n) == (4 - (n % 4)) % 4

\* A string as get_str reads it: two length prefixes, the body, the padding.
put_str_raw(l1, l2, body, pad) == put_int(l1) \o put_int(l2) \o body \o pad

put_str(body) ==
    put_str_raw(Len(body), Len(body), body, [i \in 1..PadLen(Len(body)) |-> 0])

RECURSIVE put_strs(_)
put_strs(bs) == IF Len(bs) = 0 THEN <<>> ELSE put_str(Head(bs)) \o put_strs(Tail(bs))

----------------------------------------------------------------------------
(* Sets of sequences, for the contents of the model's files.               *)

RECURSIVE SeqsOfLen(_, _)
SeqsOfLen(S, n) ==
    IF n = 0 THEN {<<>>}
    ELSE {<<x>> \o t : x \in S, t \in SeqsOfLen(S, n - 1)}

SeqsUpTo(S, n) == UNION {SeqsOfLen(S, k) : k \in 0..n}

Idle == [idle |-> TRUE]

----------------------------------------------------------------------------
(* get_str called on its own.                                              *)

MaxStrLen == 5

\* 'a', and the two bytes of U+00E9.
StrBytes == {97, 195, 169}

\* Lengths below zero, which get_str takes from the file like any other.
NegStrLens == {-5, -1}

StrInputs ==
    {[l1 |-> Len(body), l2 |-> Len(body) + off, body |-> body,
      pad |-> [i \in 1..PadLen(Len(body)) |-> fill], lead |-> lead, cut |-> cut] :
        body \in SeqsUpTo(StrBytes, MaxStrLen), off \in {0, 1},
        fill \in {0, 97}, lead \in {<<>>, put_int(7)}, cut \in {0, 1}}

StrFile(i) ==
    LET whole == i.lead \o put_str_raw(i.l1, i.l2, i.body, i.pad)
    IN  SubSeq(whole, 1, Len(whole) - i.cut)

InitStr ==
    /\ inp \in StrInputs
                 \cup {[l1 |-> l, l2 |-> l, body |-> <<>>, pad |-> <<97, 97, 97, 97>>,
                        lead |-> <<>>, cut |-> 0] : l \in NegStrLens}
    /\ file = StrFile(inp)
    /\ pos = Len(inp.lead)
    /\ pc = "get_str"
    /\ header = Idle
    /\ ret = Idle
    /\ loc = Idle
    /\ doms = <<>>
    /\ frames = <<>>
    /\ fns = <<>>
    /\ tarr = <<>>

GetStrReturn(r) ==
    /\ ret' = DictDel(r, "pos")
    /\ pos' = r.pos

GetStr ==
    /\ pc = "get_str"
    /\ GetStrReturn(get_str(file, pos))
    /\ pc' = "done"
    /\ UNCHANGED <<file, header, loc, doms, frames, fns, tarr, inp>>

NextStr == GetStr

SpecStr == InitStr /\ [][NextStr]_vars

\* ceil(n / 4) for n >= 0
CeilDiv4(n) == (n + 3) \div 4

\* C9: get_str, for every first prefix l1 >= 0 and every second prefix l2, on a
\* file that holds the whole padded body, advances the cursor by exactly
\* 8 + 4*ceil(l1/4) bytes; a mismatch l1 # l2 only warns; and it returns the
\* text of the first l1 body bytes (the padding is dropped) whenever these are
\* valid UTF-8, the length used being l1.
C9_GetStrAdvance ==
    (pc = "done" /\ inp.l1 >= 0 /\ inp.cut = 0) =>
        /\ pos = Len(inp.lead) + 8 + 4 * CeilDiv4(inp.l1)
        /\ ret.warn = (inp.l1 # inp.l2)
        /\ utf8_decode(inp.body).ok =>
              /\ ret.ok
              /\ ret.val = utf8_decode(inp.body).val
        /\ ~utf8_decode(inp.body).ok => (~ret.ok /\ ret.err = "UnicodeDecodeError")

\* C9 witness: a string of five bytes whose prefixes differ and whose padding
\* is not zero has been read, and its text has four characters.
C9_Witness ==
    /\ pc = "done"
    /\ inp.l1 = 5 /\ inp.l2 = 6 /\ inp.cut = 0 /\ inp.pad = <<97, 97, 97>>
    /\ inp.lead # <<>>
    /\ ret.ok /\ ret.warn /\ Len(ret.val) = 4
    /\ pos = Len(inp.lead) + 16

----------------------------------------------------------------------------
(* The headers of the model's files.                                       *)

put_header_common(i) ==
    put_int(i.dump_type) \o put_int(i.dversion) \o put_str(i.title) \o put_str(i.revision)

\* dump_type 2 and 3: timestamp, geometry, domains, n, n names, n units.
put_header_flds(b) ==
    put_float(b.timestamp) \o put_int(b.geometry) \o put_int(b.domains)
        \o put_int(Len(b.names)) \o put_strs(b.names) \o put_strs(b.units)

\* dump_type 6: geometry, three flags, n, n enable flags, the unit strings.
put_header_pmovie(b) ==
    put_int(b.geometry) \o put_ints(b.sflags) \o put_int(b.n) \o put_ints(b.flags)
        \o put_strs(b.units)

\* dump_type 10: geometry, n, n names.
put_header_pext(b) ==
    put_int(b.geometry) \o put_int(Len(b.names)) \o put_strs(b.names)

put_header(i) ==
    put_header_common(i)
        \o (IF i.dump_type \in {2, 3} THEN put_header_flds(i.body)
            ELSE IF i.dump_type = 6 THEN put_header_pmovie(i.body)
            ELSE IF i.dump_type = 10 THEN put_header_pext(i.body)
            ELSE <<>>)

\* The i-th quantity of a fields file, "E", "F", "G", ..., and its unit "V", "W", ...
QName(i) == <<68 + i>>
QUnit(i) == <<85 + i>>

FldsBodies(maxq, domains) ==
    {[timestamp |-> [f4 |-> t], geometry |-> 2, domains |-> d,
      names |-> [i \in 1..q |-> QName(i)], units |-> [i \in 1..q |-> QUnit(i)]] :
        t \in {0, 1078530011}, d \in domains, q \in 0..maxq}

\* The unit of movie param i: "u" and a letter of its own, or "m" for all.
MovieUnit(i, same) == IF same THEN <<109>> ELSE <<117, 96 + i>>

\* The enable flags of n params: all set or all clear, but for up to two of them.
FlagLists(n) ==
    {[i \in 1..n |-> IF i \in S THEN 1 - base ELSE base] :
        S \in {{}} \cup {{i, j} : i \in 1..n, j \in 1..n}, base \in {0, 1}}

\* An enable flag is true for any value but 0: the true flags are written as 1
\* with units of their own, or as -2 with one unit for all.
MovieBodiesN(n) ==
    {[geometry |-> 2, sflags |-> <<1, 0, 1>>, n |-> n,
      flags |-> [i \in DOMAIN fl |-> fl[i] * (IF same THEN -2 ELSE 1)],
      units |-> [i \in DOMAIN fl |-> MovieUnit(i, same)]] :
        fl \in FlagLists(n), same \in BOOLEAN}

MovieBodies(ns) == UNION {MovieBodiesN(n) : n \in ns}

\* The names of an extraction file's quantities: "p1", "p2", ...
PextNames(n) == [i \in 1..n |-> <<112, 48 + i>>]

PextBodies(ns) == {[geometry |-> 2, names |-> PextNames(n)] : n \in ns}

CommonFields(types) ==
    {[dump_type |-> dt, dversion |-> 4, title |-> title, revision |-> <<114, 49>>] :
        dt \in types, title \in {<<>>, <<108, 115, 112, 195, 169>>}}

----------------------------------------------------------------------------
(* get_header called on its own.                                           *)

MaxDumpType == 11
MaxParams == 12
MaxHdrQuantities == 3

\* How a file ends after its header: at once, with more bytes, or a byte short.
Endings == {[tail |-> <<>>, cut |-> 0], [tail |-> <<0, 0, 0, 9>>, cut |-> 0],
            [tail |-> <<>>, cut |-> 1]}

HdrWith(c, b, e) ==
    [dump_type |-> c.dump_type, dversion |-> c.dversion, title |-> c.title,
     revision |-> c.revision, body |-> b, tail |-> e.tail, cut |-> e.cut]

HeaderInputs ==
    {HdrWith(c, Idle, e) :
        c \in CommonFields((-1..MaxDumpType) \ {2, 3, 6, 10}), e \in Endings}
    \cup {HdrWith(c, b, e) :
        c \in CommonFields({2, 3}), b \in FldsBodies(MaxHdrQuantities, {0, 2}), e \in Endings}
    \cup {HdrWith(c, b, e) :
        c \in CommonFields({10}), b \in PextBodies(0..MaxHdrQuantities), e \in Endings}
    \cup {HdrWith(c, b, e) :
        c \in {x \in CommonFields({6}) : x.title = <<>>},
        b \in MovieBodies(-1..MaxParams),
        e \in {x \in Endings : x.tail # <<>>}}
    \cup {HdrWith(c, b, e) :
        c \in CommonFields({6}), b \in MovieBodiesN(8), e \in Endings}

HdrFile(i) ==
    LET whole == put_header(i) \o i.tail
    IN  SubSeq(whole, 1, Len(whole) - i.cut)

InitHeader ==
    /\ inp \in HeaderInputs
    /\ file = HdrFile(inp)
    /\ pos = 0
    /\ pc = "get_header"
    /\ header = Idle
    /\ ret = Idle
    /\ loc = Idle
    /\ doms = <<>>
    /\ frames = <<>>
    /\ fns = <<>>
    /\ tarr = <<>>

GetHeaderReturn(r) ==
    /\ pos' = r.pos
    /\ IF r.ok
       THEN /\ header' = r.val
            /\ ret' = [ok |-> TRUE]
       ELSE /\ header' = Idle
            /\ ret' = [ok |-> FALSE, err |-> r.err]

\* header = get_header(file): the header, or the exception and no header.
GetHeader ==
    /\ pc = "get_header"
    /\ GetHeaderReturn(get_header(file, pos))
    /\ pc' = "done"
    /\ UNCHANGED <<file, loc, doms, frames, fns, tarr, inp>>

NextHeader == GetHeader

SpecHeader == InitHeader /\ [][NextHeader]_vars

\* The byte after the last header byte of the file written from i.
HeaderEnd(i) == Len(put_header(i))

\* C6: on a file that holds its header whole, get_header fails with the
\* unknown dump_type error and returns no header for every dump_type outside
\* {2, 3, 6, 10}, the cursor standing after the four common fields; for a
\* dump_type inside the set (a movie header declaring 7, 8 or 11 params) it
\* returns a header of that dump_type and leaves the cursor immediately after
\* the last header byte.
C6_DumpTypes ==
    (pc = "done" /\ inp.cut = 0) =>
        /\ inp.dump_type \notin {2, 3, 6, 10} =>
              /\ ~ret.ok
              /\ ret.err = "ValueError: Unknown dump_type"
              /\ header = Idle
        /\ (inp.dump_type \in {2, 3, 10} \/ (inp.dump_type = 6 /\ inp.body.n \in {7, 8, 11})) =>
              /\ ret.ok
              /\ header # Idle
              /\ header["dump_type"] = inp.dump_type
              /\ header["title"] = utf8_decode(inp.title).val
              /\ pos = HeaderEnd(inp)
              /\ pos = Len(file) - Len(inp.tail)

\* C6 witness: a file of dump_type 7 with bytes after the common fields was
\* refused, and a header was not returned.
C6_Witness ==
    /\ pc = "done" /\ inp.cut = 0 /\ inp.dump_type = 7 /\ inp.tail # <<>>
    /\ ~ret.ok /\ header = Idle /\ pos < Len(file)

\* The labels of a movie header, in the order of the format.
ParamLabels == <<"q", "x", "y", "z", "ux", "uy", "uz", "E", "xi", "yi", "zi">>

\* The (label, unit) pairs of the params i..n of movie body b whose flag is set.
RECURSIVE EnabledFrom(_, _)
EnabledFrom(b, i) ==
    IF i > b.n THEN <<>>
    ELSE (IF b.flags[i] # 0
          THEN <<(<<ParamLabels[i], utf8_decode(b.units[i]).val>>)>>
          ELSE <<>>) \o EnabledFrom(b, i + 1)

\* C10: for a movie header declaring n params (the file holding it whole),
\* get_header fails for every n outside {7, 8, 11}; for n in {7, 8, 11}
\* header['params'] is exactly the pairs (label_i, unit_i), i = 1..n, whose
\* enable flag is true, in order, the labels being the first n of
\* q,x,y,z,ux,uy,uz,E,xi,yi,zi and unit_i the i-th unit string of the file.
C10_MovieParams ==
    (pc = "done" /\ inp.dump_type = 6 /\ inp.cut = 0) =>
        /\ inp.body.n \notin {7, 8, 11} =>
              /\ ~ret.ok
              /\ ret.err = "NotImplementedError"
              /\ header = Idle
        /\ inp.body.n \in {7, 8, 11} =>
              /\ ret.ok
              /\ header["params"] = EnabledFrom(inp.body, 1)

\* C10 witness: a header of 7 params, the first and the last of them disabled,
\* was decoded to its five enabled params.
C10_Witness ==
    /\ pc = "done" /\ inp.dump_type = 6 /\ inp.cut = 0
    /\ inp.body.n = 7 /\ inp.body.flags[1] = 0 /\ inp.body.flags[7] = 0
    /\ ret.ok /\ Len(header["params"]) = 5
    /\ header["params"][5] = <<"uy", <<117, 102>> >>

----------------------------------------------------------------------------
(* read_flds.                                                              *)

\* An array: its shape and its elements in row-major order.
ndarray(shape, flat) == [shape |-> shape, flat |-> flat]

\* fld_raw.reshape(nAll, size).T: row c holds the elements c, c + size, ...
component(raw, nAll, size, c) == [k \in 1..nAll |-> raw[(k - 1) * size + c]]

\* The bytes one quantity takes in a domain of nAll cells: the seek of the skip.
skip_width_nosize(nAll, size) == nAll * 4

skip_width(nAll, size) == nAll * 4 * size

\* d[quantity] for a scalar, d[quantity+'x'], +'y', +'z' for a vector.
store_quantity(d, quantity, raw, n, size) ==
    IF size = 1
    THEN [d EXCEPT !.q = (quantity :> ndarray(<<n[3], n[2], n[1]>>,
                                           component(raw, n[1] * n[2] * n[3], size, 1))) @@ @]
    ELSE [d EXCEPT !.q =
             ((quantity \o <<120>>) :> ndarray(<<n[3], n[2], n[1]>>,
                                           component(raw, n[1] * n[2] * n[3], size, 1)))
             @@ ((quantity \o <<121>>) :> ndarray(<<n[3], n[2], n[1]>>,
                                           component(raw, n[1] * n[2] * n[3], size, 2)))
             @@ ((quantity \o <<122>>) :> ndarray(<<n[3], n[2], n[1]>>,
                                           component(raw, n[1] * n[2] * n[3], size, 3)))
             @@ @]

\* The quantities of one domain, in the order of qs: skipped or read into d.
RECURSIVE read_quantities(_, _, _, _, _, _, _)
read_quantities(f, p, qs, flds_set, size, n, d) ==
    IF Len(qs) = 0 THEN Ok(d, p)
    ELSE IF Head(qs) \notin flds_set
    THEN read_quantities(f, file_seek_cur(p, skip_width(n[1] * n[2] * n[3], size)),
                         Tail(qs), flds_set, size, n, d)
    ELSE Bind(get_float_N(f, p, n[1] * n[2] * n[3] * size), LAMBDA r :
             read_quantities(f, r.pos, Tail(qs), flds_set, size, n,
                             store_quantity(d, Head(qs), r.val, n, size)))

\* One pass of the loop over the domains: the region indices, the three grid
\* vectors, then the quantities.
read_domain(f, p, qs, flds_set, size) ==
    Bind(get_int_N(f, p, 3), LAMBDA R :
    Bind(get_int(f, R.pos), LAMBDA nI :
    Bind(get_float_N(f, nI.pos, nI.val), LAMBDA Ip :
    Bind(get_int(f, Ip.pos), LAMBDA nJ :
    Bind(get_float_N(f, nJ.pos, nJ.val), LAMBDA Jp :
    Bind(get_int(f, Jp.pos), LAMBDA nK :
    Bind(get_float_N(f, nK.pos, nK.val), LAMBDA Kp :
        read_quantities(f, Kp.pos, qs, flds_set, size, <<nI.val, nJ.val, nK.val>>,
                        [xgv |-> Ip.val, ygv |-> Jp.val, zgv |-> Kp.val, q |-> <<>>]))))))))

\* The first requested field that is not stored in the file, if there is one.
\* invalid_request without the check: every request passes.
invalid_request_unchecked(req, qs) == None

RECURSIVE invalid_request(_, _)
invalid_request(req, qs) ==
    IF Len(req) = 0 THEN None
    ELSE IF Head(req) \notin Range(qs) THEN [fld |-> Head(req)]
    ELSE invalid_request(Tail(req), qs)

\* [i[0] for i in pairs]
firsts(pairs) == [i \in DOMAIN pairs |-> pairs[i][1]]

\* read_flds from the header read to the loop over the domains: the size of a
\* quantity's elements, qs (which runs header['quantities'] to its end), and the
\* requested fields checked.
ReadFldsChecked(h, qs, req) ==
    /\ header' = [h.val EXCEPT !["quantities"] = iter_all(h.val["quantities"]).after]
    /\ pos' = h.pos
    /\ IF Len(req) # 0 /\ invalid_request(req, qs) # None
       THEN /\ ret' = [ok |-> FALSE, err |-> "ValueError: Invalid field request",
                       fld |-> invalid_request(req, qs).fld, stored |-> qs]
            /\ pc' = "done"
            /\ UNCHANGED loc
       ELSE /\ loc' = [flds |-> IF Len(req) = 0 THEN qs ELSE req,
                       qs |-> qs,
                       size |-> IF h.val["dump_type"] = 2 THEN 3 ELSE 1,
                       flds_set |-> Range(IF Len(req) = 0 THEN qs ELSE req)]
            /\ pc' = "flds_loop"
            /\ UNCHANGED ret

ReadFldsHeader(h) ==
    IF ~h.ok
    THEN /\ ret' = [ok |-> FALSE, err |-> h.err]
         /\ pos' = h.pos
         /\ pc' = "done"
         /\ UNCHANGED <<header, loc>>
    ELSE IF h.val["dump_type"] \notin {2, 3}
    THEN /\ ret' = [ok |-> FALSE, err |-> "TypeError: Invalid fields file"]
         /\ pos' = h.pos
         /\ header' = h.val
         /\ pc' = "done"
         /\ UNCHANGED loc
    ELSE ReadFldsChecked(h, firsts(iter_all(h.val["quantities"]).items), inp.req)

\* with myopen(fname, 'rb') as file, up to the loop over the domains.
ReadFldsOpen ==
    /\ pc = "read_flds"
    /\ ReadFldsHeader(get_header(file, pos))
    /\ doms' = <<>>
    /\ UNCHANGED <<file, frames, fns, tarr, inp>>

ReadFldsAppend(r) ==
    /\ pos' = r.pos
    /\ IF r.ok
       THEN /\ doms' = Append(doms, r.val)
            /\ UNCHANGED <<pc, ret>>
       ELSE /\ ret' = [ok |-> FALSE, err |-> r.err]
            /\ pc' = "done"
            /\ UNCHANGED doms

\* for i in range(header['domains']): one domain.
ReadFldsDomain ==
    /\ pc = "flds_loop"
    /\ Len(doms) < header["domains"]
    /\ ReadFldsAppend(read_domain(file, pos, loc.qs, loc.flds_set, loc.size))
    /\ UNCHANGED <<file, header, loc, frames, fns, tarr, inp>>

\* return doms, header
ReadFldsReturn ==
    /\ pc = "flds_loop"
    /\ Len(doms) >= header["domains"]
    /\ ret' = [ok |-> TRUE, doms |-> doms, header |-> header]
    /\ pc' = "done"
    /\ UNCHANGED <<file, pos, header, loc, doms, frames, fns, tarr, inp>>

\* The files read_flds is called on.

MaxQuantities == 3
MaxGrid == 2
MaxDomains == 2

\* The floats k+1 .. k+n.
Floats(k, n) == [i \in 1..n |-> [f4 |-> k + i]]

\* A domain of nI x nJ x nK cells with q quantities of size components each:
\* three region indices, the grid vectors with their lengths, then the
\* quantities one after the other.
put_domain(n, q, size) ==
    put_ints(<<0, 0, 0>>)
        \o put_int(n[1]) \o put_floats(Floats(100, n[1]))
        \o put_int(n[2]) \o put_floats(Floats(200, n[2]))
        \o put_int(n[3]) \o put_floats(Floats(300, n[3]))
        \o Flatten([i \in 1..q |-> put_floats(Floats(1000 * i, n[1] * n[2] * n[3] * size))])

FldsSize(dump_type) == IF dump_type = 2 THEN 3 ELSE 1

put_flds_file(i) ==
    LET whole == put_header(i)
                   \o Flatten([k \in DOMAIN i.shapes |->
                         put_domain(i.shapes[k], Len(i.body.names), FldsSize(i.dump_type))])
                   \o i.tail
    IN  SubSeq(whole, 1, Len(whole) - i.cut)

Shapes == {<<a, b, c>> : a \in 0..MaxGrid, b \in 0..MaxGrid, c \in 0..MaxGrid}

FewShapes == {<<1, 1, 1>>, <<2, 1, 0>>, <<1, 2, 2>>}

\* A quantity no file of the model stores: "X".
Unstored == <<88>>

\* The requests made of a file with q quantities: none (all are read), each
\* non-empty choice of them in file order, and requests with an unstored name.
Requests(q) ==
    LET names == [i \in 1..q |-> QName(i)]
        pick(S) == SelectSeq(names, LAMBDA x : x \in S)
    IN  {pick(S) : S \in SUBSET Range(names)}
            \cup {<<Unstored>>}
            \cup {pick(S) \o <<Unstored>> : S \in {Range(names)}}

FldsWith(c, q, shapes, req, e) ==
    [dump_type |-> c.dump_type, dversion |-> c.dversion, title |-> c.title,
     revision |-> c.revision,
     body |-> [timestamp |-> [f4 |-> 1078530011], geometry |-> 2, domains |-> Len(shapes),
               names |-> [i \in 1..q |-> QName(i)], units |-> [i \in 1..q |-> QUnit(i)]],
     shapes |-> shapes, req |-> req, tail |-> e.tail, cut |-> e.cut]

FldsInputs ==
    UNION {
        {FldsWith(c, q, shapes, req, e) :
            c \in {x \in CommonFields({2, 3}) : x.title = <<>>},
            shapes \in {<<n>> : n \in Shapes} \cup SeqsUpTo(FewShapes, MaxDomains),
            req \in Requests(q),
            e \in {x \in Endings : x.cut = 0 /\ x.tail = <<>>}}
        \cup
        {FldsWith(c, q, shapes, req, e) :
            c \in {x \in CommonFields({2, 3}) : x.title = <<>>},
            shapes \in SeqsUpTo(FewShapes, 1),
            req \in Requests(q),
            e \in {x \in Endings : x.cut # 0 \/ x.tail # <<>>}}
        : q \in 0..MaxQuantities}

\* Files that are not fields or scalars files.
NotFldsInputs ==
    {[dump_type |-> c.dump_type, dversion |-> c.dversion, title |-> c.title,
      revision |-> c.revision, body |-> b, shapes |-> <<>>, req |-> <<>>,
      tail |-> <<>>, cut |-> 0] :
        c \in CommonFields({10}), b \in PextBodies({8})}

InitFlds ==
    /\ inp \in FldsInputs \cup NotFldsInputs
    /\ file = put_flds_file(inp)
    /\ pos = 0
    /\ pc = "read_flds"
    /\ header = Idle
    /\ ret = Idle
    /\ loc = Idle
    /\ doms = <<>>
    /\ frames = <<>>
    /\ fns = <<>>
    /\ tarr = <<>>

NextFlds == ReadFldsOpen \/ ReadFldsDomain \/ ReadFldsReturn

SpecFlds == InitFlds /\ [][NextFlds]_vars

\* The text of the bytes b of a file of the model.
TextOf(b) == utf8_decode(b).val

\* The bytes of one domain of n[1] x n[2] x n[3] cells in a file of q quantities:
\* the region indices, the grid vectors with their lengths, the quantities.
DomainBytes(n, q, size) ==
    12 + (4 + 4 * n[1]) + (4 + 4 * n[2]) + (4 + 4 * n[3]) + q * (n[1] * n[2] * n[3] * 4 * size)

\* The byte after the first k domains of the file written from i.
DomainsEnd(i, k) ==
    HeaderEnd(i)
        + SeqSum([j \in 1..k |->
                     DomainBytes(i.shapes[j], Len(i.body.names), FldsSize(i.dump_type))])

ValidRequest(i) == Range(i.req) \subseteq Range(i.body.names)

\* C1: on a well-formed fields or scalars file the cursor after each domain, and
\* when read_flds returns, is header_size + the sum over the domains read of
\* (grid bytes + q * nI*nJ*nK*4*size), whichever of the declared quantities
\* were requested: skipping a quantity moves the cursor as reading it does.
C1_CursorSameForEverySubset ==
    (pc # "read_flds" /\ inp.dump_type \in {2, 3} /\ inp.cut = 0 /\ ValidRequest(inp)) =>
        /\ pc = "flds_loop" => pos = DomainsEnd(inp, Len(doms))
        /\ pc = "done" =>
              /\ ret.ok
              /\ Len(ret.doms) = Len(inp.shapes)
              /\ pos = DomainsEnd(inp, Len(inp.shapes))
              /\ pos = Len(file) - Len(inp.tail)

\* C1 witness: a fields file of two domains and three quantities was read for
\* its second quantity alone, the two others skipped.
C1_Witness ==
    /\ pc = "done" /\ ret.ok /\ inp.dump_type = 2
    /\ inp.shapes = <<(<<1, 2, 2>>), (<<2, 1, 0>>)>>
    /\ Len(inp.body.names) = 3 /\ inp.req = <<QName(2)>>
    /\ DOMAIN ret.doms[1].q = {QName(2) \o <<120>>, QName(2) \o <<121>>, QName(2) \o <<122>>}
    /\ pos = Len(file)

\* C3: read_flds called with a non-empty list that holds a name the header does
\* not declare fails before any domain is decoded: the cursor stands immediately
\* after the header, nothing is returned, and the error names the field and the
\* stored quantities.
C3_InvalidRequestNoDecode ==
    (pc # "read_flds" /\ inp.dump_type \in {2, 3} /\ Len(file) >= HeaderEnd(inp)
        /\ ~ValidRequest(inp)) =>
        /\ pc = "done"
        /\ ~ret.ok
        /\ ret.err = "ValueError: Invalid field request"
        /\ ret.fld = Unstored
        /\ ret.stored = [j \in DOMAIN inp.body.names |-> TextOf(inp.body.names[j])]
        /\ pos = HeaderEnd(inp)
        /\ doms = <<>>

\* C3 witness: a request for a stored and an unstored field was refused on a
\* file that holds a domain after its header.
C3_Witness ==
    /\ pc = "done" /\ ~ret.ok /\ Len(inp.req) = 2 /\ ~ValidRequest(inp)
    /\ Len(inp.shapes) = 1 /\ pos = HeaderEnd(inp) /\ pos < Len(file)

\* C7: read_flds returns the header unchanged: header['quantities'] of the
\* returned header yields the (name, unit) pairs get_header decoded.
C7_HeaderUnchanged ==
    (pc = "done" /\ ret.ok) =>
        iter_all(ret.header["quantities"]).items
            = zip_pairs([j \in DOMAIN inp.body.names |-> TextOf(inp.body.names[j])],
                        [j \in DOMAIN inp.body.units |-> TextOf(inp.body.units[j])])

----------------------------------------------------------------------------
(* read_pmovie and read_pmovie_ll.                                         *)

\* pbytes without the particle id that leads each row.
movie_pbytes_noid(nparams) == nparams * 4

\* pbytes = (nparams+1)*4
movie_pbytes(nparams) == (nparams + 1) * 4

\* One row of dtype [('ip','>i4')] + [(param, '>f4'), ...]: a value for each name.
movie_row(b, params) ==
    [k \in {"ip"} \cup Range(params) |->
        IF k = "ip" THEN be_i4(SubSeq(b, 1, 4))
        ELSE LET c == CHOOSE c \in DOMAIN params : params[c] = k
             IN  be_f4(SubSeq(b, 4 * c + 1, 4 * c + 4))]

\* The N rows np.frombuffer makes of buffer s under the dtype of params.
movie_rows(s, N, params) ==
    [r \in 1..N |->
        movie_row(SubSeq(s, (r - 1) * 4 * (1 + Len(params)) + 1,
                            r * 4 * (1 + Len(params))), params)]

\* np.frombuffer(file.read(N*4*len(lt)), dtype=np.dtype(lt), count=N)
read_frame_data(f, p, N, params) ==
    np_fromstring(file_read(f, p, N * 4 * (1 + Len(params))), N, 4 * (1 + Len(params)),
                  LAMBDA s, n : movie_rows(s, n, params))

\* One pass of the first loop: the frame's t, step and pnum, its position, and
\* the seek over its rows.
index_frame(f, p, pbytes) ==
    Bind(get_dict(f, p, <<"f", "i", "i">>, <<"t", "step", "pnum">>), LAMBDA d :
        Ok(DictUpdate(d.val, [pos |-> d.pos]),
           file_seek_cur(d.pos, d.val["pnum"] * pbytes)))

\* One pass of the second loop: the frame with its data and without its pos.
decode_frame(f, d, params) ==
    Bind(read_frame_data(f, file_seek(d["pos"]), d["pnum"], params), LAMBDA arr :
        Ok(DictDel(DictUpdate(d, [data |-> arr.val]), "pos"), arr.pos))

\* header = get_header(file), then read_pmovie_ll up to its first loop:
\* params, _ = zip(*header['params']) needs a header with params, and one
\* param at least.
ReadPmovieHeader(h) ==
    /\ pos' = h.pos
    /\ IF ~h.ok
       THEN /\ ret' = [ok |-> FALSE, err |-> h.err]
            /\ pc' = "done"
            /\ UNCHANGED <<header, loc>>
       ELSE /\ header' = h.val
            /\ IF "params" \notin DOMAIN h.val
               THEN /\ ret' = [ok |-> FALSE, err |-> "KeyError"]
                    /\ pc' = "done"
                    /\ UNCHANGED loc
               ELSE IF Len(h.val["params"]) = 0
               THEN /\ ret' = [ok |-> FALSE, err |-> "ValueError"]
                    /\ pc' = "done"
                    /\ UNCHANGED loc
               ELSE /\ loc' = [params  |-> firsts(h.val["params"]),
                               nparams |-> Len(h.val["params"]),
                               pbytes  |-> movie_pbytes(Len(h.val["params"])),
                               pos0    |-> h.pos,
                               i       |-> 0]
                    /\ pc' = "pmovie_index"
                    /\ UNCHANGED ret

ReadPmovieOpen ==
    /\ pc = "read_pmovie"
    /\ \E h \in {get_header(file, pos)} : ReadPmovieHeader(h)
    /\ frames' = <<>>
    /\ UNCHANGED <<file, doms, fns, tarr, inp>>

PmovieIndexed(r) ==
    /\ pos' = r.pos
    /\ IF r.ok
       THEN /\ frames' = Append(frames, r.val)
            /\ UNCHANGED <<pc, ret>>
       ELSE /\ ret' = [ok |-> FALSE, err |-> r.err]
            /\ pc' = "done"
            /\ UNCHANGED frames

\* while not iseof(file): one frame indexed.
PmovieIndex ==
    /\ pc = "pmovie_index"
    /\ ~iseof(file, pos).eof
    /\ \E r \in {index_frame(file, iseof(file, pos).pos, loc.pbytes)} : PmovieIndexed(r)
    /\ UNCHANGED <<file, header, loc, doms, fns, tarr, inp>>

\* iseof(file) is true: the first loop ends.
PmovieIndexEnd ==
    /\ pc = "pmovie_index"
    /\ iseof(file, pos).eof
    /\ pos' = iseof(file, pos).pos
    /\ pc' = "pmovie_decode"
    /\ UNCHANGED <<file, header, ret, loc, frames, doms, fns, tarr, inp>>

PmovieDecoded(r) ==
    /\ pos' = r.pos
    /\ IF r.ok
       THEN /\ frames' = [frames EXCEPT ![loc.i + 1] = r.val]
            /\ loc' = [loc EXCEPT !.i = @ + 1]
            /\ UNCHANGED <<pc, ret>>
       ELSE /\ ret' = [ok |-> FALSE, err |-> r.err]
            /\ pc' = "done"
            /\ UNCHANGED <<frames, loc>>

\* for i, d in enumerate(frames): one frame decoded.
PmovieDecode ==
    /\ pc = "pmovie_decode"
    /\ loc.i < Len(frames)
    /\ \E r \in {decode_frame(file, frames[loc.i + 1], loc.params)} : PmovieDecoded(r)
    /\ UNCHANGED <<file, header, doms, fns, tarr, inp>>

\* return frames
PmovieReturn ==
    /\ pc = "pmovie_decode"
    /\ loc.i >= Len(frames)
    /\ ret' = [ok |-> TRUE, frames |-> frames]
    /\ pc' = "done"
    /\ UNCHANGED <<file, pos, header, loc, frames, doms, fns, tarr, inp>>

\* The movie files read_pmovie is called on.

MaxFrames == 3

\* The particle counts of the frames.
ParticleCounts == {0, 2, 5}

\* Frame j of pnum particles with k floats each: t, step, pnum, then the rows,
\* each a particle id and k floats.
put_frame(j, pnum, k) ==
    put_float([f4 |-> j]) \o put_int(10 * j) \o put_int(pnum)
        \o Flatten([r \in 1..pnum |->
              put_int(100 * j + r) \o put_floats(Floats(1000 * j + 10 * r, k))])

\* The number of params a movie header body enables.
EnabledCount(b) == Cardinality({i \in DOMAIN b.flags : b.flags[i] # 0})

put_movie_file(i) ==
    LET whole == put_header(i)
                   \o Flatten([j \in DOMAIN i.pnums |->
                         put_frame(j, i.pnums[j], EnabledCount(i.body))])
                   \o i.tail
    IN  SubSeq(whole, 1, Len(whole) - i.cut)

\* Headers of 8 params all enabled, of 8 with the first three enabled, of 7
\* with the last enabled, of 11 with none.
MovieHeads ==
    {[geometry |-> 2, sflags |-> <<1, 0, 1>>, n |-> Len(fl), flags |-> fl,
      units |-> [i \in DOMAIN fl |-> MovieUnit(i, FALSE)]] :
        fl \in {[i \in 1..8 |-> 1], [i \in 1..8 |-> IF i <= 3 THEN 1 ELSE 0],
                [i \in 1..7 |-> IF i = 7 THEN 1 ELSE 0], [i \in 1..11 |-> 0]}}

MovieInputs ==
    {[dump_type |-> 6, dversion |-> 4, title |-> <<>>, revision |-> <<114, 49>>,
      body |-> b, pnums |-> pn, tail |-> e.tail, cut |-> e.cut] :
        b \in MovieHeads, pn \in SeqsUpTo(ParticleCounts, MaxFrames), e \in Endings}

InitMovie ==
    /\ inp \in MovieInputs
    /\ file = put_movie_file(inp)
    /\ pos = 0
    /\ pc = "read_pmovie"
    /\ header = Idle
    /\ ret = Idle
    /\ loc = Idle
    /\ doms = <<>>
    /\ frames = <<>>
    /\ fns = <<>>
    /\ tarr = <<>>

NextMovie ==
    ReadPmovieOpen \/ PmovieIndex \/ PmovieIndexEnd \/ PmovieDecode \/ PmovieReturn

SpecMovie == InitMovie /\ [][NextMovie]_vars

\* The call runs on until it returns or raises.
SpecMovieFair == SpecMovie /\ WF_vars(NextMovie)

\* The bytes of a row of the movie file written from i: the id and the floats.
RowBytes(i) == 4 * (1 + EnabledCount(i.body))

\* Where the rows of frame j start in the file written from i.
FrameStart(i, j) ==
    HeaderEnd(i) + SeqSum([m \in 1..(j - 1) |-> 12 + i.pnums[m] * RowBytes(i)]) + 12

\* Row r of frame j as it was written: a value for "ip" and for each label.
WrittenRow(j, r, labels) ==
    [k \in {"ip"} \cup Range(labels) |->
        IF k = "ip" THEN 100 * j + r
        ELSE [f4 |-> 1000 * j + 10 * r + (CHOOSE c \in DOMAIN labels : labels[c] = k)]]

EnabledLabels(i) == firsts(EnabledFrom(i.body, 1))

WellFormedMovie(i) == i.cut = 0 /\ Len(i.tail) = 0 /\ EnabledCount(i.body) >= 1

C2_Frames ==
    WellFormedMovie(inp) =>
        /\ pc \in {"pmovie_index", "pmovie_decode"} =>
              /\ Len(frames) <= Len(inp.pnums)
              /\ \A j \in (loc.i + 1)..Len(frames) :
                    /\ frames[j]["pos"] = FrameStart(inp, j)
                    /\ frames[j]["pnum"] = inp.pnums[j]
        /\ pc = "pmovie_index" =>
              pos = FrameStart(inp, Len(frames) + 1) - 12
        /\ pc = "done" =>
              /\ ret.ok
              /\ Len(ret.frames) = Len(inp.pnums)
              /\ \A j \in DOMAIN ret.frames :
                    /\ DOMAIN ret.frames[j] = {"t", "step", "pnum", "data"}
                    /\ ret.frames[j]["t"] = [f4 |-> j]
                    /\ ret.frames[j]["step"] = 10 * j
                    /\ ret.frames[j]["pnum"] = inp.pnums[j]
                    /\ Len(ret.frames[j]["data"]) = inp.pnums[j]
                    /\ \A r \in 1..inp.pnums[j] :
                          ret.frames[j]["data"][r] = WrittenRow(j, r, EnabledLabels(inp))

----------------------------------------------------------------------------
(* read_pext and read_pext_ll.                                             *)

\* pext_params without the E column of a file of 9 quantities.
pext_params_noE(nparams) ==
    <<"t", "q", "x", "y", "z", "ux", "uy", "uz">>
        \o (IF nparams = 11 THEN <<"xi", "yi", "zi">>
            ELSE IF nparams = 12 THEN <<"E", "xi", "yi", "zi">>
            ELSE <<>>)

\* params, from the number of the header's quantities.
pext_params(nparams) ==
    <<"t", "q", "x", "y", "z", "ux", "uy", "uz">>
        \o (IF nparams = 9 THEN <<"E">>
            ELSE IF nparams = 11 THEN <<"xi", "yi", "zi">>
            ELSE IF nparams = 12 THEN <<"E", "xi", "yi", "zi">>
            ELSE <<>>)

\* One row of dtype [(param, '>f4'), ...].
pext_row(b, params) ==
    [k \in Range(params) |->
        be_f4(SubSeq(b, 4 * (CHOOSE c \in DOMAIN params : params[c] = k) - 3,
                        4 * (CHOOSE c \in DOMAIN params : params[c] = k)))]

pext_rows(s, N, params) ==
    [r \in 1..N |->
        pext_row(SubSeq(s, (r - 1) * 4 * Len(params) + 1, r * 4 * Len(params)), params)]

\* s = file.read(); out = np.fromstring(s, dtype=dt, count=-1)
read_pext_table(f, p, params) ==
    np_fromstring(file_read(f, p, -1), -1, 4 * Len(params),
                  LAMBDA s, n : pext_rows(s, n, params))

\* read_pext_ll(file, header): len(header['quantities']) needs a header with
\* quantities that are a list.
read_pext_ll(f, p, h) ==
    IF "quantities" \notin DOMAIN h THEN Raise("KeyError", p)
    ELSE IF "list" \notin DOMAIN h["quantities"] THEN Raise("TypeError", p)
    ELSE With(pext_params(Len(h["quantities"].list)), LAMBDA params :
             Bind(read_pext_table(f, p, params), LAMBDA out :
                 Ok([columns |-> params, rows |-> out.val], out.pos)))

read_pext(f, p) ==
    Bind(get_header(f, p), LAMBDA h : read_pext_ll(f, h.pos, h.val))

ReadPextReturn(r) ==
    /\ pos' = r.pos
    /\ ret' = DictDel(r, "pos")

ReadPext ==
    /\ pc = "read_pext"
    /\ ReadPextReturn(read_pext(file, pos))
    /\ pc' = "done"
    /\ UNCHANGED <<file, header, loc, doms, frames, fns, tarr, inp>>

\* The extraction files read_pext is called on.

MaxPextQuantities == 13
MaxRows == 3

\* The bytes after the header: whole rows of 8, 9, 11 or 12 floats, and some more.
PextLengths ==
    {rows * 4 * cols + extra :
        rows \in 0..MaxRows, cols \in {8, 9, 11, 12}, extra \in {0, 1, 3, 29, 32}}

\* n bytes, the k-th float being k.
PextBytes(n) == [k \in 1..n |-> IF k % 4 = 0 THEN k \div 4 ELSE 0]

PextInputs ==
    {[dump_type |-> 10, dversion |-> 4, title |-> <<>>, revision |-> <<114, 49>>,
      body |-> b, r |-> r] :
        b \in PextBodies(0..MaxPextQuantities), r \in PextLengths}

put_pext_file(i) == put_header(i) \o PextBytes(i.r)

InitPext ==
    /\ inp \in PextInputs
                \cup {[dump_type |-> 2, dversion |-> 4, title |-> <<>>,
                       revision |-> <<114, 49>>, body |-> b, r |-> 32] :
                          b \in FldsBodies(1, {0})}
                \cup {[dump_type |-> 6, dversion |-> 4, title |-> <<>>,
                       revision |-> <<114, 49>>, body |-> b, r |-> 32] : b \in MovieHeads}
    /\ file = put_pext_file(inp)
    /\ pos = 0
    /\ pc = "read_pext"
    /\ header = Idle
    /\ ret = Idle
    /\ loc = Idle
    /\ doms = <<>>
    /\ frames = <<>>
    /\ fns = <<>>
    /\ tarr = <<>>

NextPext == ReadPext

SpecPext == InitPext /\ [][NextPext]_vars

\* C4: read_pext_ll fails for every extraction header whose quantity count is
\* not 8, 9, 11 or 12, and makes a table only for 8 (t,q,x,y,z,ux,uy,uz),
\* 9 (+E), 11 (+xi,yi,zi) and 12 (+E,xi,yi,zi) quantities.
C4_UnsupportedCountFails ==
    (pc = "done" /\ inp.dump_type = 10) =>
        /\ Len(inp.body.names) \notin {8, 9, 11, 12} => ~ret.ok
        /\ ret.ok => Len(ret.val.columns) = Len(inp.body.names)

\* C5: read_pext_ll (not lowlev) on a file of r bytes after a header of 8, 9,
\* 11 or 12 quantities, the row width being w = 4 * the number of columns,
\* returns a table of exactly r / w rows when r is a multiple of w, the rows
\* holding the floats of the file in order, and fails with no table whenever
\* r mod w is not zero.
C5_PextRows ==
    (pc = "done" /\ inp.dump_type = 10 /\ Len(inp.body.names) \in {8, 9, 11, 12}) =>
        LET cols == Len(inp.body.names)
            w    == 4 * cols
        IN  /\ (inp.r % w) = 0 =>
                  /\ ret.ok
                  /\ Len(ret.val.columns) = cols
                  /\ Len(ret.val.rows) = inp.r \div w
                  /\ \A j \in DOMAIN ret.val.rows : \A c \in 1..cols :
                        ret.val.rows[j][ret.val.columns[c]] = [f4 |-> (j - 1) * cols + c]
                  /\ pos = Len(file)
            /\ (inp.r % w) # 0 =>
                  /\ ~ret.ok
                  /\ ret.err = "ValueError"
                  /\ "val" \notin DOMAIN ret

\* C5 witness: three rows of nine floats were read after a header of nine
\* quantities.
C5_Witness ==
    /\ pc = "done" /\ inp.dump_type = 10 /\ Len(inp.body.names) = 9 /\ inp.r = 108
    /\ ret.ok /\ Len(ret.val.rows) = 3 /\ ret.val.columns[9] = "E"

----------------------------------------------------------------------------
(* times.                                                                  *)

\* The body of the loop of times for one file: its header read, then the
\* test of its dump_type.
times_file(f) ==
    Bind(get_header(f, 0), LAMBDA h :
        IF ~(h.val["dump_type"] = 2 \/ h.val["dump_type"] = 3)
        THEN IF "timestamp" \in DOMAIN h.val THEN Ok(h.val["timestamp"], h.pos)
             ELSE Raise("KeyError", h.pos)
        ELSE Raise("NotImplementedError", h.pos))

\* nfiles = len(fns); times = np.zeros(nfiles)
TimesStart ==
    /\ pc = "times"
    /\ tarr' = [j \in 1..Len(fns) |-> [f4 |-> 0]]
    /\ loc' = [i |-> 0, nfiles |-> Len(fns)]
    /\ pc' = "times_loop"
    /\ UNCHANGED <<file, pos, header, ret, doms, frames, fns, inp>>

TimesStored(r) ==
    /\ pos' = r.pos
    /\ IF r.ok
       THEN /\ tarr' = [tarr EXCEPT ![loc.i + 1] = r.val]
            /\ loc' = [loc EXCEPT !.i = @ + 1]
            /\ UNCHANGED <<pc, ret>>
       ELSE /\ ret' = [ok |-> FALSE, err |-> r.err]
            /\ pc' = "done"
            /\ UNCHANGED <<tarr, loc>>

\* for i in range(nfiles): one file.
TimesFile ==
    /\ pc = "times_loop"
    /\ loc.i < loc.nfiles
    /\ file' = fns[loc.i + 1]
    /\ TimesStored(times_file(fns[loc.i + 1]))
    /\ UNCHANGED <<header, doms, frames, fns, inp>>

\* return times
TimesReturn ==
    /\ pc = "times_loop"
    /\ loc.i >= loc.nfiles
    /\ ret' = [ok |-> TRUE, val |-> tarr]
    /\ pc' = "done"
    /\ UNCHANGED <<file, pos, header, loc, doms, frames, fns, tarr, inp>>

\* The files times is called on.

MaxFiles == 3

\* A fields file, a scalars file, a movie file, an extraction file and a file
\* of an unknown dump_type.
TimesCatalogue ==
    {HdrWith(c, b, e) :
        c \in {x \in CommonFields({2}) : Len(x.title) = 0},
        b \in {x \in FldsBodies(1, {1}) : x.timestamp.f4 # 0 /\ Len(x.names) = 1},
        e \in {x \in Endings : x.cut = 0 /\ Len(x.tail) # 0}}
    \cup {HdrWith(c, b, e) :
        c \in {x \in CommonFields({3}) : Len(x.title) = 0},
        b \in {x \in FldsBodies(1, {1}) : x.timestamp.f4 = 0 /\ Len(x.names) = 1},
        e \in {x \in Endings : x.cut = 0 /\ Len(x.tail) = 0}}
    \cup {HdrWith(c, b, e) :
        c \in {x \in CommonFields({6}) : Len(x.title) = 0},
        b \in {x \in MovieHeads : x.n = 7},
        e \in {x \in Endings : x.cut = 0 /\ Len(x.tail) = 0}}
    \cup {HdrWith(c, b, e) :
        c \in {x \in CommonFields({10}) : Len(x.title) = 0},
        b \in PextBodies({8}),
        e \in {x \in Endings : x.cut = 0 /\ Len(x.tail) = 0}}
    \cup {HdrWith(c, Idle, e) :
        c \in {x \in CommonFields({5}) : Len(x.title) = 0},
        e \in {x \in Endings : x.cut = 0 /\ Len(x.tail) = 0}}

InitTimes ==
    /\ inp \in {[files |-> fs] : fs \in SeqsUpTo(TimesCatalogue, MaxFiles)}
    /\ fns = [j \in DOMAIN inp.files |-> HdrFile(inp.files[j])]
    /\ file = <<>>
    /\ pos = 0
    /\ pc = "times"
    /\ header = Idle
    /\ ret = Idle
    /\ loc = Idle
    /\ doms = <<>>
    /\ frames = <<>>
    /\ tarr = <<>>

NextTimes == TimesStart \/ TimesFile \/ TimesReturn

SpecTimes == InitTimes /\ [][NextTimes]_vars

\* C8: times(fns), given fields and scalars files only, returns an array as
\* long as fns whose i-th entry is the timestamp of the i-th file's header; the
\* 'not implemented' error is raised only when a file is neither.
C8_TimesOfFlds ==
    pc = "done" =>
        /\ (\A j \in DOMAIN inp.files : inp.files[j].dump_type \in {2, 3}) =>
              /\ ret.ok
              /\ Len(ret.val) = Len(inp.files)
              /\ \A j \in DOMAIN inp.files : ret.val[j] = inp.files[j].body.timestamp
        /\ (~ret.ok /\ ret.err = "NotImplementedError") =>
              \E j \in DOMAIN inp.files : inp.files[j].dump_type \notin {2, 3}

----------------------------------------------------------------------------
(* The text files: grid.p4, regions.p4, volumes.p4.                        *)

NL == 10
SP == 32
DOT == 46
MINUS == 45
PLUS == 43
ZERO == 48

IsSpace(c) == c \in {9, 10, 11, 12, 13, 32}

IsDigit(c) == c \in ZERO..(ZERO + 9)

\* f.readline(): the bytes from the cursor through the next newline, or to the
\* end of the file; the empty string at the end of the file.
file_readline(f, p) ==
    LET nls == {q \in (p + 1)..Len(f) : f[q] = NL}
        e   == IF nls = {} THEN Len(f) ELSE CHOOSE q \in nls : \A x \in nls : q <= x
    IN  [s |-> SubSeq(f, p + 1, e), pos |-> IF p >= Len(f) THEN p ELSE e]

\* str.strip(): without the white space at both ends.
strip(s) ==
    LET ink == {q \in DOMAIN s : ~IsSpace(s[q])}
    IN  IF ink = {} THEN <<>>
        ELSE SubSeq(s, CHOOSE q \in ink : \A x \in ink : q <= x,
                       CHOOSE q \in ink : \A x \in ink : q >= x)

\* The number of digits of s from position p on.
digits_from(s, p) ==
    LET stops == {q \in p..Len(s) : ~IsDigit(s[q])}
    IN  IF stops = {} THEN Len(s) + 1 - p
        ELSE (CHOOSE q \in stops : \A x \in stops : q <= x) - p

\* The value of the digits s[p..p+n-1].
RECURSIVE digits_value(_, _, _)
digits_value(s, p, n) ==
    IF n = 0 THEN 0 ELSE 10 * digits_value(s, p, n - 1) + (s[p + n - 1] - ZERO)

\* A float of the file: num / 10^scale, with no trailing zero in the fraction.
RECURSIVE float_value(_, _)
float_value(num, scale) ==
    IF scale > 0 /\ (num % 10) = 0 THEN float_value(num \div 10, scale - 1)
    ELSE [num |-> num, scale |-> scale]

RECURSIVE Pow10(_)
Pow10(n) == IF n = 0 THEN 1 ELSE 10 * Pow10(n - 1)

\* The longest integer (sign, digits) that s holds at position p: its value and
\* the position after it, or no match.
scan_int(s, p) ==
    LET signed == p <= Len(s) /\ s[p] \in {MINUS, PLUS}
        q      == IF signed THEN p + 1 ELSE p
        n      == digits_from(s, q)
        v      == digits_value(s, q, n)
    IN  IF n = 0 THEN [ok |-> FALSE]
        ELSE [ok |-> TRUE, val |-> IF signed /\ s[p] = MINUS THEN 0 - v ELSE v,
              next |-> q + n]

\* The longest decimal number (sign, digits, a point and digits) at position p.
scan_float(s, p) ==
    LET signed == p <= Len(s) /\ s[p] \in {MINUS, PLUS}
        q      == IF signed THEN p + 1 ELSE p
        n      == digits_from(s, q)
        dotted == q + n <= Len(s) /\ s[q + n] = DOT
        m      == IF dotted THEN digits_from(s, q + n + 1) ELSE 0
        v      == digits_value(s, q, n) * Pow10(m) + digits_value(s, q + n + 1, m)
    IN  IF n = 0 THEN [ok |-> FALSE]
        ELSE [ok |-> TRUE,
              val |-> float_value(IF signed /\ s[p] = MINUS THEN 0 - v ELSE v, m),
              next |-> IF dotted THEN q + n + 1 + m ELSE q + n]

\* int(s) and float(s) of a stripped line: the whole of s is the number, or a
\* ValueError.
py_int(s, p) ==
    LET r == scan_int(s, 1)
    IN  IF r.ok /\ r.next = Len(s) + 1 THEN Ok(r.val, p) ELSE Raise("ValueError", p)

py_float(s, p) ==
    LET r == scan_float(s, 1)
    IN  IF r.ok /\ r.next = Len(s) + 1 THEN Ok(r.val, p) ELSE Raise("ValueError", p)

\* int(f.readline().strip()), float(f.readline().strip()), f.readline().strip()
read_int_line(f, p) ==
    With(file_readline(f, p), LAMBDA l : py_int(strip(l.s), l.pos))

read_float_line(f, p) ==
    With(file_readline(f, p), LAMBDA l : py_float(strip(l.s), l.pos))

read_str_line(f, p) ==
    With(file_readline(f, p), LAMBDA l : Ok(strip(l.s), l.pos))

\* The first position from p on that holds no white space.
skip_space(s, p) ==
    LET ink == {q \in p..Len(s) : ~IsSpace(s[q])}
    IN  IF ink = {} THEN Len(s) + 1 ELSE CHOOSE q \in ink : \A x \in ink : q <= x

\* np.fromstring(line, dtype, sep=" ", count=count): the numbers of the line in
\* order, up to count of them, up to the first text that is not a number or
\* not a separator.
RECURSIVE fromstring_text(_, _, _, _)
fromstring_text(s, p, isfloat, count) ==
    IF count = 0 THEN <<>>
    ELSE LET r == IF isfloat THEN scan_float(s, skip_space(s, p))
                  ELSE scan_int(s, skip_space(s, p))
         IN  IF ~r.ok THEN <<>>
             ELSE IF r.next <= Len(s) /\ ~IsSpace(s[r.next]) THEN <<r.val>>
             ELSE <<r.val>> \o fromstring_text(s, r.next, isfloat, count - 1)

\* (a, b, ...) = myarr: the array has as many entries as there are targets, or
\* a ValueError.
unpack(arr, n, p) == IF Len(arr) = n THEN Ok(arr, p) ELSE Raise("ValueError", p)

\* np.zeros(n): n zeros, a ValueError for a negative n.
np_zeros(n, p) ==
    IF n < 0 THEN Raise("ValueError", p)
    ELSE Ok([j \in 1..n |-> float_value(0, 0)], p)

----------------------------------------------------------------------------
(* read_grid, read_regions, read_volumes.                                  *)

\* OrderedDict(): a dict with no key.
empty_dict == [k \in {} |-> 0]

\* [OrderedDict()] * n: one dict is made, and the list holds n references to
\* it (no entry when n <= 0). The objects are kept apart from the references:
\* objs are the dicts made, refs the object each entry of the list refers to.
list_repeat(n) ==
    [objs |-> <<empty_dict>>, refs |-> [j \in 1..(IF n < 0 THEN 0 ELSE n) |-> 1]]

\* lst[i][k] = v for each key k of e: the dict that entry i (from 0) refers to
\* gets the keys of e.
store_fields(lst, i, e) ==
    [lst EXCEPT !.objs[lst.refs[i + 1]] = DictUpdate(@, e)]

\* The list as its reader sees it: entry by entry, the dict referred to.
deref(lst) == [j \in DOMAIN lst.refs |-> lst.objs[lst.refs[j]]]

\* for j in range(n): arr[j] = float(f.readline().strip())
RECURSIVE read_float_lines(_, _, _, _)
read_float_lines(f, p, n, arr) ==
    IF n <= 0 THEN Ok(arr, p)
    ELSE Bind(read_float_line(f, p), LAMBDA x :
             read_float_lines(f, x.pos, n - 1, Append(arr, x.val)))

\* nI = int(...); grids[i]['nI'] = nI; grids[i]['xgv'] = np.zeros(nI); the loop.
read_axis(f, p) ==
    Bind(read_int_line(f, p), LAMBDA n :
    Bind(np_zeros(n.val, n.pos), LAMBDA z :
    Bind(read_float_lines(f, z.pos, n.val, <<>>), LAMBDA a :
        Ok([n |-> n.val, gv |-> a.val], a.pos))))

\* The body of the loop of read_grid: the fields of one grid.
read_grid_record(f, p) ==
    Bind(read_int_line(f, p), LAMBDA index :
    Bind(read_axis(f, index.pos), LAMBDA x :
    Bind(read_axis(f, x.pos), LAMBDA y :
    Bind(read_axis(f, y.pos), LAMBDA z :
        Ok([index |-> index.val,
            nI |-> x.val.n, xgv |-> x.val.gv,
            nJ |-> y.val.n, ygv |-> y.val.gv,
            nK |-> z.val.n, zgv |-> z.val.gv], z.pos)))))

\* The body of the loop of read_regions: the fields of one region.
read_regions_record(f, p) ==
    Bind(read_str_line(f, p), LAMBDA l1 :
    Bind(unpack(fromstring_text(l1.val, 1, FALSE, 3), 3, l1.pos), LAMBDA a :
    Bind(read_str_line(f, a.pos), LAMBDA l2 :
    Bind(unpack(fromstring_text(l2.val, 1, TRUE, 6), 6, l2.pos), LAMBDA b :
        Ok([nI |-> a.val[1], nJ |-> a.val[2], nK |-> a.val[3],
            xmin |-> b.val[1], xmax |-> b.val[2], ymin |-> b.val[3],
            ymax |-> b.val[4], zmin |-> b.val[5], zmax |-> b.val[6]], b.pos)))))

\* The body of the loop of read_volumes: the fields of one volume.
read_volumes_record(f, p) ==
    Bind(read_str_line(f, p), LAMBDA l :
    Bind(unpack(fromstring_text(l.val, 1, TRUE, 7), 7, l.pos), LAMBDA a :
    Bind(unpack(fromstring_text(l.val, 1, FALSE, 1), 1, a.pos), LAMBDA t :
        Ok([x0 |-> a.val[2], x1 |-> a.val[3], y0 |-> a.val[4], y1 |-> a.val[5],
            z0 |-> a.val[6], z1 |-> a.val[7], type |-> t.val[1]], t.pos))))

\* The lines before the records of grid.p4.
read_grid_head(f, p) ==
    Bind(read_str_line(f, p), LAMBDA title :
    Bind(read_int_line(f, title.pos), LAMBDA geometry :
    Bind(read_int_line(f, geometry.pos), LAMBDA dimension :
    Bind(read_str_line(f, dimension.pos), LAMBDA xu :
    Bind(read_str_line(f, xu.pos), LAMBDA yu :
    Bind(read_str_line(f, yu.pos), LAMBDA zu :
    Bind(read_int_line(f, zu.pos), LAMBDA n :
        Ok([title |-> title.val, GEOMETRY |-> geometry.val,
            DIMENSION |-> dimension.val, x_units |-> xu.val, y_units |-> yu.val,
            z_units |-> zu.val, ngrids |-> n.val], n.pos))))))))

\* The lines before the records of regions.p4.
read_regions_head(f, p) ==
    Bind(read_str_line(f, p), LAMBDA title :
    Bind(read_int_line(f, title.pos), LAMBDA geometry :
    Bind(read_int_line(f, geometry.pos), LAMBDA dimension :
    Bind(read_int_line(f, dimension.pos), LAMBDA n :
        Ok([title |-> title.val, GEOMETRY |-> geometry.val,
            DIMENSION |-> dimension.val, nregions |-> n.val], n.pos)))))

\* The lines before the records of volumes.p4.
read_volumes_head(f, p) ==
    Bind(read_str_line(f, p), LAMBDA title :
    Bind(read_int_line(f, title.pos), LAMBDA n :
        Ok([title |-> title.val, nvolumes |-> n.val], n.pos)))

\* The head was read (or raised): the list of n references is made and the
\* loop over the records starts.
TextOpened(r, n_key, loop_pc) ==
    /\ pos' = r.pos
    /\ IF r.ok
       THEN /\ loc' = [d |-> r.val, n |-> r.val[n_key], i |-> 0,
                       lst |-> list_repeat(r.val[n_key])]
            /\ pc' = loop_pc
            /\ UNCHANGED ret
       ELSE /\ ret' = [ok |-> FALSE, err |-> r.err]
            /\ pc' = "done"
            /\ UNCHANGED loc

\* One record was read (or raised): its fields are stored through entry i.
RecordStored(r) ==
    /\ pos' = r.pos
    /\ IF r.ok
       THEN /\ loc' = [loc EXCEPT !.lst = store_fields(loc.lst, loc.i, r.val),
                                  !.i = @ + 1]
            /\ UNCHANGED <<pc, ret>>
       ELSE /\ ret' = [ok |-> FALSE, err |-> r.err]
            /\ pc' = "done"
            /\ UNCHANGED loc

\* return d, d[list_key] being the list.
TextReturn(list_key) ==
    /\ loc.i >= loc.n
    /\ ret' = [ok |-> TRUE, val |-> DictUpdate(loc.d, list_key :> deref(loc.lst))]
    /\ pc' = "done"
    /\ UNCHANGED <<file, pos, header, loc, doms, frames, fns, tarr, inp>>

ReadGridOpen ==
    /\ pc = "read_grid"
    /\ \E r \in {read_grid_head(file, pos)} : TextOpened(r, "ngrids", "grid_loop")
    /\ UNCHANGED <<file, header, doms, frames, fns, tarr, inp>>

ReadGridRecord ==
    /\ pc = "grid_loop"
    /\ loc.i < loc.n
    /\ \E r \in {read_grid_record(file, pos)} : RecordStored(r)
    /\ UNCHANGED <<file, header, doms, frames, fns, tarr, inp>>

ReadGridReturn == pc = "grid_loop" /\ TextReturn("grids")

ReadRegionsOpen ==
    /\ pc = "read_regions"
    /\ \E r \in {read_regions_head(file, pos)} :
          TextOpened(r, "nregions", "regions_loop")
    /\ UNCHANGED <<file, header, doms, frames, fns, tarr, inp>>

ReadRegionsRecord ==
    /\ pc = "regions_loop"
    /\ loc.i < loc.n
    /\ \E r \in {read_regions_record(file, pos)} : RecordStored(r)
    /\ UNCHANGED <<file, header, doms, frames, fns, tarr, inp>>

ReadRegionsReturn == pc = "regions_loop" /\ TextReturn("regions")

ReadVolumesOpen ==
    /\ pc = "read_volumes"
    /\ \E r \in {read_volumes_head(file, pos)} :
          TextOpened(r, "nvolumes", "volumes_loop")
    /\ UNCHANGED <<file, header, doms, frames, fns, tarr, inp>>

ReadVolumesRecord ==
    /\ pc = "volumes_loop"
    /\ loc.i < loc.n
    /\ \E r \in {read_volumes_record(file, pos)} : RecordStored(r)
    /\ UNCHANGED <<file, header, doms, frames, fns, tarr, inp>>

ReadVolumesReturn == pc = "volumes_loop" /\ TextReturn("volumes")

\* The text files the three readers are called on.

MaxRecords == 3

\* The decimal digits of n >= 0, and the last k digits of n.
RECURSIVE put_digits(_)
put_digits(n) ==
    IF n < 10 THEN <<ZERO + n>> ELSE put_digits(n \div 10) \o <<ZERO + (n % 10)>>

RECURSIVE put_fraction(_, _)
put_fraction(n, k) ==
    IF k = 0 THEN <<>> ELSE put_fraction(n \div 10, k - 1) \o <<ZERO + (n % 10)>>

\* A float as the files hold it: digits, a point, digits ("1.0" for 1).
put_text_float(v) ==
    IF v.scale = 0 THEN put_digits(v.num) \o <<DOT, ZERO>>
    ELSE put_digits(v.num \div Pow10(v.scale)) \o <<DOT>>
            \o put_fraction(v.num % Pow10(v.scale), v.scale)

\* A line of numbers, a blank between two of them and one before the first.
RECURSIVE put_tokens(_)
put_tokens(ts) ==
    IF Len(ts) = 0 THEN <<>> ELSE <<SP>> \o Head(ts) \o put_tokens(Tail(ts))

put_line(s) == s \o <<NL>>

put_int_line(n) == put_line(<<SP>> \o put_digits(n))

put_axis(n, gv) ==
    <<put_int_line(n)>> \o [j \in DOMAIN gv |-> put_line(put_text_float(gv[j]))]

put_grid_record(g) ==
    <<put_int_line(g.index)>> \o put_axis(g.nI, g.xgv) \o put_axis(g.nJ, g.ygv)
        \o put_axis(g.nK, g.zgv)

put_regions_record(g) ==
    << put_line(put_tokens(<<put_digits(g.nI), put_digits(g.nJ), put_digits(g.nK)>>)),
       put_line(put_tokens(<<put_text_float(g.xmin), put_text_float(g.xmax),
                             put_text_float(g.ymin), put_text_float(g.ymax),
                             put_text_float(g.zmin), put_text_float(g.zmax)>>)) >>

put_volumes_record(g) ==
    << put_line(put_tokens(<<put_digits(g.type), put_text_float(g.x0),
                             put_text_float(g.x1), put_text_float(g.y0),
                             put_text_float(g.y1), put_text_float(g.z0),
                             put_text_float(g.z1)>>)) >>

TextTitle == <<76, 83, 80>>

TextUnit == <<99, 109>>

\* The lines of the file written from i.
text_lines(i) ==
    IF i.reader = "read_grid"
    THEN <<put_line(TextTitle), put_int_line(3), put_int_line(2), put_line(TextUnit),
           put_line(TextUnit), put_line(TextUnit), put_int_line(Len(i.records))>>
            \o Flatten([j \in DOMAIN i.records |-> put_grid_record(i.records[j])])
    ELSE IF i.reader = "read_regions"
    THEN <<put_line(TextTitle), put_int_line(3), put_int_line(2),
           put_int_line(Len(i.records))>>
            \o Flatten([j \in DOMAIN i.records |-> put_regions_record(i.records[j])])
    ELSE <<put_line(TextTitle), put_int_line(Len(i.records))>>
            \o Flatten([j \in DOMAIN i.records |-> put_volumes_record(i.records[j])])

\* The file written from i, its last i.cut lines lost.
put_text_file(i) ==
    Flatten(SubSeq(text_lines(i), 1, Len(text_lines(i)) - i.cut))

Fl(num, scale) == [num |-> num, scale |-> scale]

GridRecords ==
    { [index |-> 1, nI |-> 2, xgv |-> <<Fl(0, 0), Fl(5, 1)>>,
       nJ |-> 1, ygv |-> <<Fl(0, 0)>>, nK |-> 0, zgv |-> <<>>],
      [index |-> 2, nI |-> 1, xgv |-> <<Fl(15, 1)>>,
       nJ |-> 2, ygv |-> <<Fl(25, 2), Fl(1, 0)>>, nK |-> 1, zgv |-> <<Fl(12, 0)>>] }

RegionsRecords ==
    { [nI |-> 4, nJ |-> 1, nK |-> 10, xmin |-> Fl(0, 0), xmax |-> Fl(5, 1),
       ymin |-> Fl(0, 0), ymax |-> Fl(1, 0), zmin |-> Fl(0, 0), zmax |-> Fl(25, 2)],
      [nI |-> 7, nJ |-> 2, nK |-> 1, xmin |-> Fl(5, 1), xmax |-> Fl(3, 0),
       ymin |-> Fl(1, 0), ymax |-> Fl(2, 0), zmin |-> Fl(0, 0), zmax |-> Fl(1, 0)] }

VolumesRecords ==
    { [type |-> 1, x0 |-> Fl(0, 0), x1 |-> Fl(5, 1), y0 |-> Fl(0, 0),
       y1 |-> Fl(1, 0), z0 |-> Fl(0, 0), z1 |-> Fl(25, 2)],
      [type |-> 2, x0 |-> Fl(5, 1), x1 |-> Fl(3, 0), y0 |-> Fl(1, 0),
       y1 |-> Fl(2, 0), z0 |-> Fl(0, 0), z1 |-> Fl(1, 0)] }

TextInputs ==
    {[reader |-> "read_grid", records |-> rs, cut |-> c] :
        rs \in SeqsUpTo(GridRecords, MaxRecords), c \in {0, 1}}
    \cup {[reader |-> "read_regions", records |-> rs, cut |-> c] :
        rs \in SeqsUpTo(RegionsRecords, MaxRecords), c \in {0, 1}}
    \cup {[reader |-> "read_volumes", records |-> rs, cut |-> c] :
        rs \in SeqsUpTo(VolumesRecords, MaxRecords), c \in {0, 1}}

InitText ==
    /\ inp \in TextInputs
    /\ file = put_text_file(inp)
    /\ pos = 0
    /\ pc = inp.reader
    /\ header = Idle
    /\ ret = Idle
    /\ loc = Idle
    /\ doms = <<>>
    /\ frames = <<>>
    /\ fns = <<>>
    /\ tarr = <<>>

NextText ==
    \/ ReadGridOpen \/ ReadGridRecord \/ ReadGridReturn
    \/ ReadRegionsOpen \/ ReadRegionsRecord \/ ReadRegionsReturn
    \/ ReadVolumesOpen \/ ReadVolumesRecord \/ ReadVolumesReturn

SpecText == InitText /\ [][NextText]_vars

\* The key of the list of records in the dict each reader returns.
ListKey(reader) ==
    IF reader = "read_grid" THEN "grids"
    ELSE IF reader = "read_regions" THEN "regions" ELSE "volumes"

\* C11: after read_grid, read_regions or read_volumes has read a whole file
\* that declares n >= 2 records, entry i of the returned list holds the fields
\* of the i-th record of the file, for every i: the list of n identical empty
\* dicts the reader starts from does no harm.
C11_EntriesHoldOwnRecord ==
    (pc = "done" /\ inp.cut = 0 /\ Len(inp.records) >= 2) =>
        /\ ret.ok
        /\ Len(ret.val[ListKey(inp.reader)]) = Len(inp.records)
        /\ \A i \in DOMAIN inp.records :
              ret.val[ListKey(inp.reader)][i] = inp.records[i]

====
